---------------------------- MODULE Spec2Model ----------------------------
(***************************************************************************)
(* A model of magrathea, a procedural planet generator.                    *)
(*                                                                         *)
(* Terrain::generate builds, from the planet's seed, an expanded colour    *)
(* gradient and a field of sample points; Terrain::generate_planet renders *)
(* a square image of it pixel by pixel and counts the pixels per kind.     *)
(* The command line front end parses its options, generates and saves.     *)
(*                                                                         *)
(* Numbers.  The program computes in f32.  The model computes in integers: *)
(* positions and distances are whole kilometres, elevations and the        *)
(* surface chaos are hundredths (so that chaos times distance is an exact  *)
(* elevation), colours are 8-bit levels (sRGB) or their squares (linear    *)
(* light, the transfer function being taken as gamma 2), other factors are *)
(* thousandths.  Square roots are integer square roots.  NaN is modelled   *)
(* where the program can meet it (the planet's radius, the weighted        *)
(* elevation of three coincident points).                                  *)
(*                                                                         *)
(* Randomness.  SmallRng is a deterministic function of its seed: it is    *)
(* modelled as a small full-period congruential generator whose every      *)
(* state is the seed of some uuid.  A draw yields one of Grain equally     *)
(* spaced fractions of the unit interval.                                  *)
(***************************************************************************)
EXTENDS Integers, Sequences, FiniteSets, TLC

VARIABLES
    planet,           \* the Planet: seed, origin, radius, colors
    pc,               \* where the program is
    failure,          \* the panic that ended the run, "none" otherwise
    rng,              \* the state of the run's SmallRng
    draws,            \* what each draw of the run was made for, in order
    elevation_range,  \* Terrain::generate's elevation_range <<start, end>>
    carryover,        \* generate_elevations' carryover
    index,            \* generate_elevations' loop index (0-based)
    remaining,        \* iterations left of the point loop
    terrain,          \* the Terrain: surface_chaos, origin, radius, points, elevations
    built_by,         \* how the terrain came to be: "none", "generate", "literal"
    pixels,           \* generate_planet's resolution
    sun,              \* generate_planet's light: Option<Light>
    cursor,           \* pixels of the image written so far
    image,            \* the pixels written, in enumeration order
    samples,          \* per written pixel, what extrapolate_point found for it
    stats,            \* per-kind pixel counts
    run,              \* number of the generation in progress (1 or 2)
    previous,         \* what the first generation produced
    options,          \* the command line options
    saved,            \* images handed to the encoder
    event,            \* the editor event being handled, or handled last
    events,           \* editor events handled so far
    seed_label,       \* the value last sent to the editor's seed label
    throttle,         \* the editor's regenerate_throttle, and the commands
                      \* it delivered that the window has yet to handle
    sprite            \* what the editor's image entity shows

vars == <<planet, pc, failure, rng, draws, elevation_range, carryover, index,
          remaining, terrain, built_by, pixels, sun, cursor, image, samples,
          stats, run, previous, options, saved, event, events, seed_label,
          throttle, sprite>>

generation_vars == <<rng, draws, elevation_range, carryover, index, remaining,
                     terrain, built_by>>
render_vars == <<pixels, sun, cursor, image, samples, stats>>
editor_vars == <<event, events, seed_label, throttle, sprite>>

-----------------------------------------------------------------------------
(* Bounds of the model *)

Grain == 8            \* distinct raw outcomes of one draw
MaxPixels == 4        \* largest resolution rendered
ComplexityLow == 3    \* stands for the 50 of gen_range(50..1000)
ComplexitySpan == 2   \* stands for the 950 values of gen_range(50..1000)
MaxLiteralPoints == 3 \* points of a Terrain written as a struct literal
MaxHexLen == 7        \* longest sun colour string tried
MaxSaved == 2         \* rounds of the command's repeat loop
MaxEvents == 3        \* mouse events and messages the editor handles
EditorPixels == 2     \* the editor's resolution

-----------------------------------------------------------------------------
(* Arithmetic *)

Abs(x) == IF x < 0 THEN -x ELSE x
Min(a, b) == IF a < b THEN a ELSE b
Max(a, b) == IF a > b THEN a ELSE b

RECURSIVE SqrtSearch(_, _, _)
SqrtSearch(n, lo, hi) ==
    \* the largest k in lo..hi with k*k <= n, given lo*lo <= n < (hi+1)^2
    IF lo >= hi THEN lo
    ELSE LET mid == (lo + hi + 1) \div 2
         IN  IF mid * mid <= n THEN SqrtSearch(n, mid, hi)
             ELSE SqrtSearch(n, lo, mid - 1)

\* f32::sqrt, rounded down to a whole number (n < 2^31, so the root < 46341)
Isqrt(n) == SqrtSearch(n, 0, Min(n, 46340))

\* euclid's Point2D::distance_to: the length of the difference vector.
\* Coordinates too large for their squares to fit are scaled down first.
Hypot(dx, dy) ==
    IF Abs(dx) <= 30000 /\ Abs(dy) <= 30000
    THEN Isqrt(dx * dx + dy * dy)
    ELSE 8192 * Isqrt((dx \div 8192) * (dx \div 8192) + (dy \div 8192) * (dy \div 8192))

DistanceTo(p, q) == Hypot(p[1] - q[1], p[2] - q[2])

RECURSIVE SumSeq(_)
SumSeq(s) == IF s = <<>> THEN 0 ELSE Head(s) + SumSeq(Tail(s))

-----------------------------------------------------------------------------
(* Lengths that may be NaN *)

Length(v) == [nan |-> FALSE, km |-> v]
NaN == [nan |-> TRUE, km |-> 0]

\* Range<f32>::is_empty: !(start < end), which is true when either is NaN
RangeIsEmpty(lo, hi) == ~(lo < hi)

-----------------------------------------------------------------------------
(* The random number generator *)

\* SmallRng is modelled as a full-period linear congruential generator
Modulus == 64
Multiplier == 37
Increment == 11

Uuids == 0..(Modulus - 1)

\* The fresh uuids tried on the command line
CliUuids == {uuid \in Uuids : uuid % 8 = 5}

\* The 32-byte seed is the 16 bytes of the uuid, twice
SeedBytes(uuid) == <<uuid, uuid>>

\* A generator seeded from what differs from call to call, not from the uuid
FromEntropy(seed) == (seed[1] + 2 * seed[2] + run) % Modulus

\* SmallRng::from_seed: a one-to-one function of the uuid
FromSeed(seed) == (seed[1] + 2 * seed[2]) % Modulus

\* One raw outcome, 0..Grain-1, standing for the fraction raw/Grain of [0, 1)
NextRaw(r) == (r * Grain) \div Modulus
Advance(r) == (Multiplier * r + Increment) % Modulus

\* rng.gen_range(lo..hi) for a non-empty range: lo <= result < hi
GenRange(lo, hi, raw) == lo + ((hi - lo) * raw) \div Grain

-----------------------------------------------------------------------------
(* Colours *)

\* Srgb<f32> is held as three levels of 255 (a level may leave 0..255);
\* LinearRgb as three levels of 255 * 255.
LinearOne == 65025

\* 0.1 of linear light
COLOR_LIGHTEN_DELTA == 6502

Channels == 1..3

\* Srgb::into_linear, per channel
IntoLinear(c) == [i \in Channels |-> IF c[i] >= 0 THEN c[i] * c[i] ELSE -(c[i] * c[i])]

\* Srgb::from_linear, per channel
FromLinear(l) == [i \in Channels |-> IF l[i] >= 0 THEN Isqrt(l[i]) ELSE -Isqrt(-l[i])]

\* Shade::lighten on linear rgb adds the amount to every channel
Lighten(l, amount) == [i \in Channels |-> l[i] + amount]

\* Shade::darken is lighten by the negated amount
Darken(l, amount) == Lighten(l, -amount)

\* (component * 255.0) as u8: the cast truncates and saturates
AsU8(level) == IF level < 0 THEN 0 ELSE IF level > 255 THEN 255 ELSE level

\* a * b of linear light, per channel, kept within 32 bits
MulLinear(a, b) ==
    [i \in Channels |->
        ((a[i] \div 255) * b[i]) \div 255 + ((a[i] % 255) * b[i]) \div LinearOne]

-----------------------------------------------------------------------------
(* Palettes *)

\* Kilometers::new for an elevation: hundredths of a kilometre
Kilometers(km) == km * 100

\* ElevationColor::from_u8
ElevationColor(kind, r, g, b, km) ==
    [kind |-> kind, color |-> <<r, g, b>>, elevation |-> Kilometers(km)]

Earthlike ==
    << ElevationColor("DeepOcean", 19, 30, 180, -2000),
       ElevationColor("ShallowOcean", 98, 125, 223, 0),
       ElevationColor("Beach", 209, 207, 169, 100),
       ElevationColor("Grass", 152, 214, 102, 200),
       ElevationColor("Forest", 47, 106, 42, 600),
       ElevationColor("Mountain", 100, 73, 53, 1600),
       ElevationColor("Snow", 238, 246, 245, 1700) >>

Sunlike ==
    << ElevationColor("DeepBase", 189, 31, 10, -200),
       ElevationColor("BrightMiddle", 250, 156, 56, -180),
       ElevationColor("HotTop", 255, 218, 41, 200) >>

\* Planet.colors is a public field: two more palettes a caller can pass,
\* one of a single anchor and one of two anchors at the same elevation
SingleAnchor == << ElevationColor("DeepBase", 189, 31, 10, 0) >>
LevelPair ==
    << ElevationColor("DeepBase", 189, 31, 10, 0),
       ElevationColor("HotTop", 255, 218, 41, 0) >>

\* A palette lying wholly above the greatest surface chaos (2.0)
Highlands ==
    << ElevationColor("Mountain", 100, 73, 53, 5),
       ElevationColor("Snow", 238, 246, 245, 10) >>

Palettes == {Earthlike, Sunlike, SingleAnchor, LevelPair, Highlands}

-----------------------------------------------------------------------------
(* SortedVec *)

\* f32::partial_cmp of two numbers, neither NaN
PartialCmp(a, b) == IF a < b THEN "Less" ELSE IF a > b THEN "Greater" ELSE "Equal"

\* The comparison with its operands exchanged
ElevationColorCmpReversed(a, b) == PartialCmp(b.elevation, a.elevation)

\* ElevationColor::partial_cmp only compares the elevations
ElevationColorPartialCmp(a, b) == PartialCmp(a.elevation, b.elevation)

RECURSIVE BinarySearchLoop(_, _, _)
BinarySearchLoop(cmp, base, size) ==
    IF size <= 1 THEN base
    ELSE LET half == size \div 2
             mid == base + half
         IN  BinarySearchLoop(cmp,
                 IF cmp[mid + 1] = "Greater" THEN base ELSE mid, size - half)

\* slice::binary_search_by, given for every element what the comparator says
\* of it: Ok(index) of a match or Err(index) of the insertion point (0-based)
BinarySearchBy(cmp) ==
    IF Len(cmp) = 0 THEN [ok |-> FALSE, index |-> 0]
    ELSE LET base == BinarySearchLoop(cmp, 0, Len(cmp))
         IN  IF cmp[base + 1] = "Equal" THEN [ok |-> TRUE, index |-> base]
             ELSE [ok |-> FALSE,
                   index |-> base + (IF cmp[base + 1] = "Less" THEN 1 ELSE 0)]

InsertAt(s, i, x) == SubSeq(s, 1, i) \o <<x>> \o SubSeq(s, i + 1, Len(s))

\* SortedVec::insert: at the index the binary search gives, match or not
SortedInsert(s, x) ==
    InsertAt(s,
             BinarySearchBy([i \in 1..Len(s) |-> ElevationColorPartialCmp(s[i], x)]).index,
             x)


-----------------------------------------------------------------------------
(* Terrain::generate *)

\* The progress of a stretch of code that draws and inserts: the generator,
\* the log of draws, the gradient built so far, and the panic met, if any
Progress(r, d, out) == [rng |-> r, draws |-> d, out |-> out, fail |-> "none"]

\* A band of two shades, its midpoint drawn but not inserted
ElevationRangeTwoShades(b, kind, lo, hi, base_color) ==
    IF b.fail # "none" THEN b
    ELSE IF RangeIsEmpty(lo, hi) THEN [b EXCEPT !.fail = "empty range: midpoint"]
    ELSE
      LET o1 == SortedInsert(b.out,
                    [kind |-> kind, color |-> FromLinear(base_color),
                     elevation |-> lo])
          o3 == SortedInsert(o1,
                    [kind |-> kind,
                     color |-> FromLinear(Lighten(base_color, COLOR_LIGHTEN_DELTA)),
                     elevation |-> hi])
      IN  [rng |-> Advance(Advance(b.rng)),
           draws |-> b.draws \o <<"midpoint", "midpoint_color">>,
           out |-> o3, fail |-> "none"]

\* generate_elevation_range_into: three shades of one band
GenerateElevationRangeInto(b, kind, lo, hi, base_color) ==
    IF b.fail # "none" THEN b
    ELSE IF RangeIsEmpty(lo, hi) THEN [b EXCEPT !.fail = "empty range: midpoint"]
    ELSE
      LET midpoint == GenRange(lo, hi, NextRaw(b.rng))
          r1 == Advance(b.rng)
          midpoint_color == GenRange(0, COLOR_LIGHTEN_DELTA, NextRaw(r1))
          r2 == Advance(r1)
          o1 == SortedInsert(b.out,
                    [kind |-> kind, color |-> FromLinear(base_color),
                     elevation |-> lo])
          o2 == SortedInsert(o1,
                    [kind |-> kind,
                     color |-> FromLinear(Lighten(base_color, midpoint_color)),
                     elevation |-> midpoint])
          o3 == SortedInsert(o2,
                    [kind |-> kind,
                     color |-> FromLinear(Lighten(base_color, COLOR_LIGHTEN_DELTA)),
                     elevation |-> hi])
      IN  [rng |-> r2, draws |-> b.draws \o <<"midpoint", "midpoint_color">>,
           out |-> o3, fail |-> "none"]

\* The loop body drawing the end of a band up to the end of the whole range
ElevationsIterationToRangeEnd(b, colorings, i, range, carry) ==
    LET coloring == colorings[i + 1]
        base == IntoLinear(coloring.color)
        elevation == coloring.elevation - carry
        started ==
            IF i = 0
            THEN GenerateElevationRangeInto(b, coloring.kind, range[1], elevation,
                                            Darken(base, COLOR_LIGHTEN_DELTA))
            ELSE b
        lighter == Lighten(base, COLOR_LIGHTEN_DELTA)
    IN  IF started.fail # "none" THEN [b |-> started, carry |-> carry]
        ELSE IF i + 1 = Len(colorings)
        THEN [b |-> GenerateElevationRangeInto(started, coloring.kind, elevation,
                                               range[2], lighter),
              carry |-> carry]
        ELSE
          LET next == range[2]
          IN  IF RangeIsEmpty(elevation, next)
              THEN [b |-> [started EXCEPT !.fail = "empty range: band end"],
                    carry |-> carry]
              ELSE
                LET end == GenRange(elevation, next, NextRaw(started.rng))
                    drawn == [started EXCEPT !.rng = Advance(@),
                                             !.draws = Append(@, "band_end")]
                    done == GenerateElevationRangeInto(drawn, coloring.kind,
                                                       elevation, end, base)
                IN  [b |-> done,
                     carry |-> IF done.fail = "none" THEN next - end ELSE carry]

\* One iteration of generate_elevations' loop, for the anchor at `i` (0-based).
\* The result carries the carryover the iteration leaves.
ElevationsIteration(b, colorings, i, range, carry) ==
    LET coloring == colorings[i + 1]
        base == IntoLinear(coloring.color)
        elevation == coloring.elevation - carry
        started ==
            IF i = 0
            THEN GenerateElevationRangeInto(b, coloring.kind, range[1], elevation,
                                            Darken(base, COLOR_LIGHTEN_DELTA))
            ELSE b
        lighter == Lighten(base, COLOR_LIGHTEN_DELTA)
    IN  IF started.fail # "none" THEN [b |-> started, carry |-> carry]
        ELSE IF i + 1 = Len(colorings)
        THEN [b |-> GenerateElevationRangeInto(started, coloring.kind, elevation,
                                               range[2], lighter),
              carry |-> carry]
        ELSE
          LET next == colorings[i + 2].elevation
          IN  IF RangeIsEmpty(elevation, next)
              THEN [b |-> [started EXCEPT !.fail = "empty range: band end"],
                    carry |-> carry]
              ELSE
                LET end == GenRange(elevation, next, NextRaw(started.rng))
                    drawn == [started EXCEPT !.rng = Advance(@),
                                             !.draws = Append(@, "band_end")]
                    done == GenerateElevationRangeInto(drawn, coloring.kind,
                                                       elevation, end, base)
                IN  [b |-> done,
                     carry |-> IF done.fail = "none" THEN next - end ELSE carry]

NoTerrain ==
    [surface_chaos |-> 0, origin |-> <<0, 0>>, radius |-> Length(0),
     points |-> <<>>, elevations |-> <<>>]

\* Terrain::generate drawing the number of points before it expands the
\* gradient
TerrainGenerateBeginEager ==
    /\ pc = "idle"
    /\ LET r0 == FromSeed(SeedBytes(planet.seed))
           min_elevation == planet.colors[1].elevation
           max_elevation == planet.colors[Len(planet.colors)].elevation
           elevation_variance ==
               ((max_elevation - min_elevation) * NextRaw(r0) * 3) \div (Grain * 10)
           r1 == Advance(r0)
           r2 == Advance(r1)
       IN  /\ elevation_range' = <<min_elevation - elevation_variance,
                                   max_elevation + elevation_variance>>
           /\ terrain' = [surface_chaos |-> GenRange(100, 200, NextRaw(r1)),
                          origin |-> planet.origin,
                          radius |-> planet.radius,
                          points |-> <<>>,
                          elevations |-> <<>>]
           /\ rng' = Advance(r2)
           /\ draws' = <<"variance", "surface_chaos", "terrain_complexity">>
    /\ index' = 0
    /\ carryover' = 0
    /\ pc' = "generate_elevations"
    /\ UNCHANGED <<planet, failure, remaining, built_by, render_vars, run,
                   previous, options, saved,
                   editor_vars>>

\* Terrain::generate extending the range twice as far above as below
TerrainGenerateBeginOverTop ==
    /\ pc = "idle"
    /\ LET r0 == FromSeed(SeedBytes(planet.seed))
           min_elevation == planet.colors[1].elevation
           max_elevation == planet.colors[Len(planet.colors)].elevation
           elevation_variance ==
               ((max_elevation - min_elevation) * NextRaw(r0) * 3) \div (Grain * 10)
           r1 == Advance(r0)
           surface_chaos == GenRange(100, 200, NextRaw(r1))
       IN  /\ elevation_range' = <<min_elevation - elevation_variance,
                                   max_elevation + 2 * elevation_variance>>
           /\ terrain' = [surface_chaos |-> surface_chaos,
                          origin |-> planet.origin,
                          radius |-> planet.radius,
                          points |-> <<>>,
                          elevations |-> <<>>]
           /\ rng' = Advance(r1)
           /\ draws' = <<"variance", "surface_chaos">>
    /\ index' = 0
    /\ carryover' = 0
    /\ pc' = "generate_elevations"
    /\ UNCHANGED <<planet, failure, remaining, built_by, render_vars, run,
                   previous, options, saved,
                   editor_vars>>

\* Terrain::generate up to the call of generate_elevations: the generator is
\* seeded from the planet's uuid, the overextension of the elevation range and
\* the surface chaos are drawn
TerrainGenerateBegin ==
    /\ pc = "idle"
    /\ LET r0 == FromSeed(SeedBytes(planet.seed))
           min_elevation == planet.colors[1].elevation
           max_elevation == planet.colors[Len(planet.colors)].elevation
           elevation_variance ==
               ((max_elevation - min_elevation) * NextRaw(r0) * 3) \div (Grain * 10)
           r1 == Advance(r0)
           surface_chaos == GenRange(100, 200, NextRaw(r1))
       IN  /\ elevation_range' = <<min_elevation - elevation_variance,
                                   max_elevation + elevation_variance>>
           /\ terrain' = [surface_chaos |-> surface_chaos,
                          origin |-> planet.origin,
                          radius |-> planet.radius,
                          points |-> <<>>,
                          elevations |-> <<>>]
           /\ rng' = Advance(r1)
           /\ draws' = <<"variance", "surface_chaos">>
    /\ index' = 0
    /\ carryover' = 0
    /\ pc' = "generate_elevations"
    /\ UNCHANGED <<planet, failure, remaining, built_by, render_vars, run,
                   previous, options, saved,
                   editor_vars>>

\* One iteration of the loop of generate_elevations
GenerateElevationsStep ==
    /\ pc = "generate_elevations"
    /\ index < Len(planet.colors)
    /\ LET it == ElevationsIteration(Progress(rng, draws, terrain.elevations),
                                     planet.colors, index, elevation_range,
                                     carryover)
       IN  /\ rng' = it.b.rng
           /\ draws' = it.b.draws
           /\ terrain' = [terrain EXCEPT !.elevations = it.b.out]
           /\ carryover' = it.carry
           /\ failure' = it.b.fail
           /\ pc' = IF it.b.fail = "none" THEN pc ELSE "panicked"
           /\ index' = IF it.b.fail = "none" THEN index + 1 ELSE index
    /\ UNCHANGED <<planet, elevation_range, remaining, built_by, render_vars,
                   run, previous, options, saved,
                   editor_vars>>

\* generate_elevations has returned: the number of points is drawn
TerrainComplexity ==
    /\ pc = "generate_elevations"
    /\ index = Len(planet.colors)
    /\ remaining' = GenRange(ComplexityLow, ComplexityLow + ComplexitySpan,
                             NextRaw(rng))
    /\ rng' = Advance(rng)
    /\ draws' = Append(draws, "terrain_complexity")
    /\ pc' = "points"
    /\ UNCHANGED <<planet, failure, elevation_range, carryover, index, terrain,
                   built_by, render_vars, run, previous, options, saved,
                   editor_vars>>


-----------------------------------------------------------------------------
(* The spatial index *)

\* Squared distance from the point numbered i to a location
Distance2(points, i, location) ==
    LET dx == points[i].location[1] - location[1]
        dy == points[i].location[2] - location[2]
    IN  dx * dx + dy * dy

\* i comes before j in order of distance; points equally far come in the
\* order of their insertion
Nearer(points, i, j, location) ==
    LET di == Distance2(points, i, location)
        dj == Distance2(points, j, location)
    IN  di < dj \/ (di = dj /\ i <= j)

RECURSIVE NearestAmong(_, _, _, _)
NearestAmong(points, candidates, location, n) ==
    IF n = 0 \/ candidates = {} THEN <<>>
    ELSE LET best == CHOOSE i \in candidates :
                         \A j \in candidates : Nearer(points, i, j, location)
         IN  <<points[best]>>
             \o NearestAmong(points, candidates \ {best}, location, n - 1)

\* RTree::nearest_n_neighbors: up to n points, nearest first
NearestNNeighbors(points, location, n) ==
    NearestAmong(points, DOMAIN points, location, n)

\* RTree::nearest_neighbor: <<>> for None, <<point>> for Some(point)
NearestNeighbor(points, location) == NearestNNeighbors(points, location, 1)

-----------------------------------------------------------------------------
(* Terrain::generate, the loop that inserts the points *)

\* The range taken about the point inserted first, not about the nearest
AcceptableRangeOfFirst(points, location, surface_chaos) ==
    IF points # <<>>
    THEN LET neighbor == points[1]
             distance == DistanceTo(location, neighbor.location)
         IN  <<neighbor.elevation - distance * surface_chaos,
               neighbor.elevation + distance * surface_chaos>>
    ELSE <<-surface_chaos, surface_chaos>>

\* The range the new point's elevation may be drawn in, before it is cut to
\* the elevation range
AcceptableRange(points, location, surface_chaos) ==
    LET found == NearestNeighbor(points, location)
    IN  IF found # <<>>
        THEN LET neighbor == found[1]
                 distance == DistanceTo(location, neighbor.location)
             IN  <<neighbor.elevation - distance * surface_chaos,
                   neighbor.elevation + distance * surface_chaos>>
        ELSE <<-surface_chaos, surface_chaos>>

\* The loop body of Terrain::generate leaving the target range out of the
\* range a point's elevation is drawn from
InsertPointUnbounded ==
    /\ pc = "points"
    /\ remaining > 0
    /\ LET r == terrain.radius
           bad_radius == r.nan \/ RangeIsEmpty(-r.km, r.km)
           x == GenRange(-r.km, r.km, NextRaw(rng))
           r1 == Advance(rng)
           y == GenRange(-r.km, r.km, NextRaw(r1))
           r2 == Advance(r1)
           location == <<x, y>>
           acceptable_range ==
               AcceptableRange(terrain.points, location, terrain.surface_chaos)
           lo == acceptable_range[1]
           hi == acceptable_range[2]
       IN  IF bad_radius
           THEN /\ failure' = "empty range: x"
                /\ pc' = "panicked"
                /\ UNCHANGED <<rng, draws, terrain, remaining>>
           ELSE IF RangeIsEmpty(lo, hi)
           THEN /\ failure' = "empty range: elevation"
                /\ pc' = "panicked"
                /\ rng' = r2
                /\ draws' = draws \o <<"x", "y">>
                /\ UNCHANGED <<terrain, remaining>>
           ELSE /\ terrain' = [terrain EXCEPT !.points =
                       Append(@, [location |-> location,
                                  elevation |-> GenRange(lo, hi, NextRaw(r2))])]
                /\ rng' = Advance(r2)
                /\ draws' = draws \o <<"x", "y", "elevation">>
                /\ remaining' = remaining - 1
                /\ UNCHANGED <<failure, pc>>
    /\ UNCHANGED <<planet, elevation_range, carryover, index, built_by,
                   render_vars, run, previous, options, saved,
                   editor_vars>>

\* The loop body of Terrain::generate: a location is drawn, the elevation of
\* its nearest point bounds the new elevation, and the point is inserted
InsertPoint ==
    /\ pc = "points"
    /\ remaining > 0
    /\ LET r == terrain.radius
           bad_radius == r.nan \/ RangeIsEmpty(-r.km, r.km)
           x == GenRange(-r.km, r.km, NextRaw(rng))
           r1 == Advance(rng)
           y == GenRange(-r.km, r.km, NextRaw(r1))
           r2 == Advance(r1)
           location == <<x, y>>
           acceptable_range ==
               AcceptableRange(terrain.points, location, terrain.surface_chaos)
           lo == Max(acceptable_range[1], elevation_range[1])
           hi == Min(acceptable_range[2], elevation_range[2])
       IN  IF bad_radius
           THEN /\ failure' = "empty range: x"
                /\ pc' = "panicked"
                /\ UNCHANGED <<rng, draws, terrain, remaining>>
           ELSE IF RangeIsEmpty(lo, hi)
           THEN /\ failure' = "empty range: elevation"
                /\ pc' = "panicked"
                /\ rng' = r2
                /\ draws' = draws \o <<"x", "y">>
                /\ UNCHANGED <<terrain, remaining>>
           ELSE /\ terrain' = [terrain EXCEPT !.points =
                       Append(@, [location |-> location,
                                  elevation |-> GenRange(lo, hi, NextRaw(r2))])]
                /\ rng' = Advance(r2)
                /\ draws' = draws \o <<"x", "y", "elevation">>
                /\ remaining' = remaining - 1
                /\ UNCHANGED <<failure, pc>>
    /\ UNCHANGED <<planet, elevation_range, carryover, index, built_by,
                   render_vars, run, previous, options, saved,
                   editor_vars>>

\* The loop is over: Terrain::generate returns the terrain
TerrainGenerateReturn ==
    /\ pc = "points"
    /\ remaining = 0
    /\ built_by' = "generate"
    /\ pc' = "terrain"
    /\ UNCHANGED <<planet, failure, rng, draws, elevation_range, carryover,
                   index, remaining, terrain, render_vars, run, previous,
                   options, saved,
                   editor_vars>>

-----------------------------------------------------------------------------
(* Terrain::extrapolate_point *)

\* The elevation of a point of the surface from the three points nearest to
\* it, each weighted by its share (in thousandths) of the summed distances
ExtrapolatedElevation(nearest_points, planet_point) ==
    LET distances == [i \in 1..3 |->
                         DistanceTo(nearest_points[i].location, planet_point)]
        total_distance == SumSeq(distances)
    IN  IF total_distance = 0
        THEN NaN   \* 0.0 / 0.0
        ELSE Length(SumSeq([i \in 1..3 |->
                 ((distances[i] * 1000) \div total_distance)
                     * nearest_points[i].elevation]) \div 1000)

\* The index of the gradient chosen for an elevation, -1 standing for an
\* index past the end of the gradient
ClosestElevation(elevations, e) ==
    LET found == BinarySearchBy([k \in 1..Len(elevations) |->
                                    PartialCmp(elevations[k].elevation, e)])
        i == found.index
    IN  IF found.ok THEN i
        ELSE IF i = 0 THEN i
        ELSE IF i >= Len(elevations) THEN -1
        ELSE LET delta_a == elevations[i + 1].elevation - e
                 delta_b == e - elevations[i].elevation
             IN  IF delta_a > delta_b THEN i ELSE i - 1

\* The point of the body's edge the lighting is measured from: (radius, 0)
\* rotated by the angle of the point in space plus half a turn
FocusPoint(space_point, radius) ==
    LET k == IF Abs(space_point[1]) <= 30000 /\ Abs(space_point[2]) <= 30000
             THEN 1 ELSE 8192
        sx == space_point[1] \div k
        sy == space_point[2] \div k
        h == Isqrt(sx * sx + sy * sy)
    IN  IF h = 0 THEN <<-radius, 0>>
        ELSE <<-((radius * ((sx * 10000) \div h)) \div 10000),
               -((radius * ((sy * 10000) \div h)) \div 10000)>>

\* sun_base_factor.min(1.0), in thousandths
SunFactor(t, planet_point, light) ==
    LET space_point == <<t.origin[1] + planet_point[1],
                         t.origin[2] + planet_point[2]>>
        distance_to_sun == Hypot(space_point[1], space_point[2])
        focus_point == FocusPoint(space_point, t.radius.km)
        distance_from_focus == DistanceTo(planet_point, focus_point)
        distance_dimming == 1000 - 1000 \div distance_to_sun
        sphere_dimming == (distance_from_focus * 10000) \div (t.radius.km * 14)
        sun_base_factor ==
            (((light.sols * distance_dimming) \div 1000) * sphere_dimming) \div 1000
    IN  Min(sun_base_factor, 1000)

\* Light::default(): white, one sol
DefaultLight == [color |-> <<255, 255, 255>>, sols |-> 1000]

\* The shading with the default light standing in for no light
ShadeDefaultLight(t, terrain_color, planet_point, light) ==
    LET lit == IF light = <<>> THEN DefaultLight ELSE light[1]
        factor == SunFactor(t, planet_point, lit)
    IN  MulLinear(terrain_color,
                  Darken(IntoLinear(lit.color), (factor * LinearOne) \div 1000))

\* The shading of a linear colour by the light, if there is one
Shade(t, terrain_color, planet_point, light) ==
    IF light = <<>> THEN terrain_color
    ELSE LET factor == SunFactor(t, planet_point, light[1])
         IN  MulLinear(terrain_color,
                       Darken(IntoLinear(light[1].color),
                              (factor * LinearOne) \div 1000))

NoSample ==
    [fail |-> "none", kind |-> "", color |-> <<0, 0, 0>>, closest |-> -1,
     elevation |-> NaN]

AssertNearest == "assertion failed: nearest_points.len() == 3"

\* extrapolate_point taking the category from the anchor below the one whose
\* colour it takes
ExtrapolateFromLowerKind(nearest_points, t, planet_point, light) ==
    LET e == ExtrapolatedElevation(nearest_points, planet_point)
    IN  IF e.nan
        THEN [NoSample EXCEPT !.fail = "unwrap on None: partial_cmp"]
        ELSE
          LET closest == ClosestElevation(t.elevations, e.km)
          IN  IF closest = -1
              THEN [NoSample EXCEPT !.fail = "index out of bounds",
                                    !.elevation = e]
              ELSE
                LET terrain_color ==
                        IntoLinear(t.elevations[closest + 1].color)
                    color == FromLinear(
                        Shade(t, terrain_color, planet_point, light))
                IN  [fail |-> "none",
                     kind |-> t.elevations[IF closest = 0 THEN 1 ELSE closest].kind,
                     color |-> [i \in Channels |-> AsU8(color[i])],
                     closest |-> closest,
                     elevation |-> e]

\* extrapolate_point after its assertion: the kind and the 8-bit colour of a
\* point of the surface, or the panic it ends in
ExtrapolateFrom(nearest_points, t, planet_point, light) ==
    LET e == ExtrapolatedElevation(nearest_points, planet_point)
    IN  IF e.nan
        THEN [NoSample EXCEPT !.fail = "unwrap on None: partial_cmp"]
        ELSE
          LET closest == ClosestElevation(t.elevations, e.km)
          IN  IF closest = -1
              THEN [NoSample EXCEPT !.fail = "index out of bounds",
                                    !.elevation = e]
              ELSE
                LET terrain_color ==
                        IntoLinear(t.elevations[closest + 1].color)
                    color == FromLinear(
                        Shade(t, terrain_color, planet_point, light))
                IN  [fail |-> "none",
                     kind |-> t.elevations[closest + 1].kind,
                     color |-> [i \in Channels |-> AsU8(color[i])],
                     closest |-> closest,
                     elevation |-> e]

\* extrapolate_point making do with fewer than three points: the lowest
\* anchor of the gradient, unlit
ExtrapolatePointLenient(t, planet_point, light) ==
    LET nearest_points == NearestNNeighbors(t.points, planet_point, 3)
    IN  IF Len(nearest_points) # 3
        THEN [fail |-> "none",
              kind |-> t.elevations[1].kind,
              color |-> [i \in Channels |-> AsU8(t.elevations[1].color[i])],
              closest |-> 0,
              elevation |-> NaN]
        ELSE ExtrapolateFrom(nearest_points, t, planet_point, light)

\* extrapolate_point: the three nearest points are asked for, and there must
\* be three
ExtrapolatePoint(t, planet_point, light) ==
    LET nearest_points == NearestNNeighbors(t.points, planet_point, 3)
    IN  IF Len(nearest_points) # 3
        THEN [NoSample EXCEPT !.fail = AssertNearest]
        ELSE ExtrapolateFrom(nearest_points, t, planet_point, light)

-----------------------------------------------------------------------------
(* Terrain::generate_planet *)

\* Four times the squared distance of the middle of pixel (x, y) from the
\* centre
CentreDistance2FromMiddle(x, y, p) ==
    ((2 * x + 1 - p) * (2 * x + 1 - p) + (2 * y + 1 - p) * (2 * y + 1 - p))

\* Four times the squared distance of pixel (x, y) from the centre
\* (pixels / 2, pixels / 2)
CentreDistance2(x, y, p) == (2 * x - p) * (2 * x - p) + (2 * y - p) * (2 * y - p)

\* distance <= radius
InsideOrOnEdge(x, y, p) == CentreDistance2(x, y, p) <= p * p

\* distance < radius
InsideBody(x, y, p) == CentreDistance2(x, y, p) < p * p

CeilSqrt(n) == LET s == Isqrt(n) IN IF s * s = n THEN s ELSE s + 1

\* No anti-aliasing: every pixel inside the body is opaque
AlphaOpaque(x, y, p) == 255

\* The alpha of a pixel inside the body: with delta = radius - distance,
\* 255 unless delta < 1, and then (255 * delta) as u8
Alpha(x, y, p) ==
    LET d2 == CentreDistance2(x, y, p)
        delta_below_one == p < 2 \/ d2 > (p - 2) * (p - 2)
    IN  IF delta_below_one
        THEN AsU8((255 * p - CeilSqrt(LinearOne * d2)) \div 2)
        ELSE 255

\* point * planet_scale - (radius, radius)
PlanetPoint(x, y, p, radius) ==
    <<(2 * radius * x) \div p - radius, (2 * radius * y) \div p - radius>>

\* stats.entry(kind).and_modify(|count| *count += 1).or_insert(1)
CountKind(counts, kind) ==
    [k \in DOMAIN counts \cup {kind} |->
        IF k = kind
        THEN (IF k \in DOMAIN counts THEN counts[k] + 1 ELSE 1)
        ELSE counts[k]]

NoStats == [k \in {} |-> 0]

Lights == {<<>>, <<[color |-> <<255, 255, 255>>, sols |-> 1000]>>,
           <<[color |-> <<255, 200, 100>>, sols |-> 2000]>>}

\* generate_planet is entered: an empty image and no counts
GeneratePlanetBegin ==
    /\ pc = "terrain"
    /\ \E p \in 0..MaxPixels, light \in Lights \cup {sun} :
        \* the command line has evaluated the arguments already; a second
        \* generation is given those of the first
        /\ options # <<>> => (p = pixels /\ light = sun)
        /\ options = <<>> => light \in Lights
        /\ run = 2 => (p = previous.pixels /\ light = previous.sun)
        /\ pixels' = p
        /\ sun' = light
    /\ cursor' = 0
    /\ image' = <<>>
    /\ samples' = <<>>
    /\ stats' = NoStats
    /\ pc' = "render"
    /\ UNCHANGED <<planet, failure, generation_vars, run, previous, options, saved,
                   editor_vars>>

\* One pixel of the image, in the order enumerate_pixels_mut gives them:
\* row by row
RenderPixel ==
    /\ pc = "render"
    /\ cursor < pixels * pixels
    /\ LET x == cursor % pixels
           y == cursor \div pixels
           planet_point == PlanetPoint(x, y, pixels, terrain.radius.km)
       IN  IF InsideBody(x, y, pixels)
           THEN LET got == ExtrapolatePoint(terrain, planet_point, sun)
                IN  IF got.fail # "none"
                    THEN /\ failure' = got.fail
                         /\ pc' = "panicked"
                         /\ UNCHANGED <<cursor, image, samples, stats>>
                    ELSE /\ image' = Append(image,
                                <<got.color[1], got.color[2], got.color[3],
                                  Alpha(x, y, pixels)>>)
                         /\ samples' = Append(samples,
                                [inside |-> TRUE, closest |-> got.closest,
                                 kind |-> got.kind,
                                 elevation |-> got.elevation])
                         /\ stats' = CountKind(stats, got.kind)
                         /\ cursor' = cursor + 1
                         /\ UNCHANGED <<failure, pc>>
           ELSE /\ image' = Append(image, <<0, 0, 0, 0>>)
                /\ samples' = Append(samples,
                       [inside |-> FALSE, closest |-> -1, kind |-> "",
                        elevation |-> NaN])
                /\ cursor' = cursor + 1
                /\ UNCHANGED <<failure, pc, stats>>
    /\ UNCHANGED <<planet, generation_vars, pixels, sun, run, previous,
                   options, saved,
                   editor_vars>>

\* Every pixel is written: generate_planet returns the image and the counts
GeneratePlanetReturn ==
    /\ pc = "render"
    /\ cursor = pixels * pixels
    /\ pc' = "done"
    /\ UNCHANGED <<planet, failure, generation_vars, render_vars, run,
                   previous, options, saved,
                   editor_vars>>

-----------------------------------------------------------------------------
(* The planets *)

\* cos and sin of an angle, in ten-thousandths
Angles == {"0", "-2.35619"}
Cos(angle) ==
    CASE angle = "0" -> 10000
      [] angle = "1.5708" -> 0
      [] angle = "-2.35619" -> -7071
Sin(angle) ==
    CASE angle = "0" -> 0
      [] angle = "1.5708" -> 10000
      [] angle = "-2.35619" -> -7071

\* distance * factor / 10000, rounded to the nearest whole number
Scale10k(distance, factor) ==
    LET d == Abs(distance)
        f == Abs(factor)
        magnitude == (d \div 10000) * f + ((d % 10000) * f + 5000) \div 10000
    IN  IF (distance < 0) = (factor < 0) THEN magnitude ELSE -magnitude

\* Planet::calculate_origin: the point (distance, 0) rotated by the angle
CalculateOrigin(angle, distance) ==
    <<Scale10k(distance, Cos(angle)), Scale10k(distance, Sin(angle))>>

Radii == {Length(6371), Length(0), Length(-6371), NaN}

Planets ==
    [seed : Uuids,
     origin : {CalculateOrigin("-2.35619", 150200000), CalculateOrigin("0", 20000)},
     radius : Radii,
     colors : Palettes]

NoRender ==
    /\ pixels = 0
    /\ sun = <<>>
    /\ cursor = 0
    /\ image = <<>>
    /\ samples = <<>>
    /\ stats = NoStats

NoGeneration ==
    /\ rng = 0
    /\ draws = <<>>
    /\ elevation_range = <<0, 0>>
    /\ carryover = 0
    /\ index = 0
    /\ remaining = 0
    /\ terrain = NoTerrain
    /\ built_by = "none"

\* The locals of a generation are dropped
DropGeneration ==
    /\ rng' = 0
    /\ draws' = <<>>
    /\ elevation_range' = <<0, 0>>
    /\ carryover' = 0
    /\ index' = 0
    /\ remaining' = 0
    /\ terrain' = NoTerrain
    /\ built_by' = "none"

DropRender ==
    /\ pixels' = 0
    /\ sun' = <<>>
    /\ cursor' = 0
    /\ image' = <<>>
    /\ samples' = <<>>
    /\ stats' = NoStats

\* The caller generates the same planet once more, at the same resolution and
\* under the same light; what the first generation returned is kept aside
GenerateAgain ==
    /\ pc = "done"
    /\ options = <<>>
    /\ run = 1
    /\ previous' = [pixels |-> pixels, sun |-> sun,
                    elevations |-> terrain.elevations,
                    points |-> terrain.points,
                    image |-> image, stats |-> stats]
    /\ run' = 2
    /\ pc' = "idle"
    /\ DropGeneration
    /\ DropRender
    /\ UNCHANGED <<planet, failure, options, saved,
                   editor_vars>>

-----------------------------------------------------------------------------
(* A Terrain written as a struct literal: its fields are public *)

LiteralPoints ==
    {[location |-> <<0, 0>>, elevation |-> 0],
     [location |-> <<3000, 0>>, elevation |-> 15000]}

RECURSIVE SeqsUpTo(_, _)
SeqsUpTo(S, n) ==
    IF n = 0 THEN {<<>>}
    ELSE LET shorter == SeqsUpTo(S, n - 1)
         IN  shorter \cup {Append(s, x) : s \in shorter, x \in S}

TerrainLiteral ==
    /\ pc = "idle"
    /\ \E points \in SeqsUpTo(LiteralPoints, MaxLiteralPoints) :
        terrain' = [surface_chaos |-> 100,
                    origin |-> planet.origin,
                    radius |-> planet.radius,
                    points |-> points,
                    elevations |-> planet.colors]
    /\ built_by' = "literal"
    /\ pc' = "terrain"
    /\ UNCHANGED <<planet, failure, rng, draws, elevation_range, carryover,
                   index, remaining, render_vars, run, previous, options, saved,
                   editor_vars>>

-----------------------------------------------------------------------------
(* The command line: generate *)

\* The hexadecimal digits, by value
HexDigits == <<{"0"}, {"1"}, {"2"}, {"3"}, {"4"}, {"5"}, {"6"}, {"7"}, {"8"},
               {"9"}, {"a", "A"}, {"b", "B"}, {"c", "C"}, {"d", "D"},
               {"e", "E"}, {"f", "F"}>>

\* The value of a hexadecimal digit, -1 for any other character
HexValue(c) ==
    IF \E v \in 1..16 : c \in HexDigits[v]
    THEN (CHOOSE v \in 1..16 : c \in HexDigits[v]) - 1
    ELSE -1

\* The characters tried in a sun colour: two hexadecimal digits and a letter
\* that is none
HexAlphabet == {"F", "g"}

\* hex::decode: the bytes, or an error for an odd length or a character that
\* is no hexadecimal digit
HexDecode(s) ==
    IF Len(s) % 2 # 0 THEN [ok |-> FALSE, bytes |-> <<>>]
    ELSE IF \E i \in 1..Len(s) : HexValue(s[i]) < 0
    THEN [ok |-> FALSE, bytes |-> <<>>]
    ELSE [ok |-> TRUE,
          bytes |-> [i \in 1..(Len(s) \div 2) |->
                        16 * HexValue(s[2 * i - 1]) + HexValue(s[2 * i])]]

HexMessage == "Only 6-character hexadecimal codes are allowed, e.g., FF1234"

\* sun_color taking a malformed colour for none given
SunColorIgnoring(sun_color_hex) ==
    IF sun_color_hex = <<>> THEN [fail |-> "none", color |-> <<>>]
    ELSE LET decoded == HexDecode(sun_color_hex[1])
         IN  IF ~decoded.ok \/ Len(decoded.bytes) # 3
             THEN [fail |-> "none", color |-> <<>>]
             ELSE [fail |-> "none", color |-> <<decoded.bytes>>]

\* Lightable::sun_color: None, Some(colour), or the panic
SunColor(sun_color_hex) ==
    IF sun_color_hex = <<>> THEN [fail |-> "none", color |-> <<>>]
    ELSE LET decoded == HexDecode(sun_color_hex[1])
         IN  IF ~decoded.ok \/ Len(decoded.bytes) # 3
             THEN [fail |-> HexMessage, color |-> <<>>]
             ELSE [fail |-> "none", color |-> <<decoded.bytes>>]

\* Lightable::light
LightOf(opts) ==
    LET parsed == SunColor(opts.sun_color)
    IN  IF parsed.fail # "none" \/ parsed.color = <<>>
        THEN [fail |-> parsed.fail, light |-> <<>>]
        ELSE [fail |-> "none",
              light |-> <<[color |-> parsed.color[1],
                           sols |-> IF opts.sols = <<>> THEN 1000
                                    ELSE opts.sols[1]]>>]

\* impl Into<Planet> for NewPlanetOptions, but for the fresh uuid
PlanetOf(opts, uuid) ==
    [seed |-> uuid,
     origin |-> CalculateOrigin(
                    IF opts.angle = <<>> THEN "-2.35619" ELSE opts.angle[1],
                    IF opts.distance = <<>> THEN 150200000 ELSE opts.distance[1]),
     radius |-> IF opts.radius = <<>> THEN Length(6371) ELSE opts.radius[1],
     colors |-> Earthlike]

\* The loop of generate begins a round: a new planet with a fresh uuid
CliNewPlanet ==
    /\ pc = "cli"
    /\ \E uuid \in CliUuids : planet' = PlanetOf(options, uuid)
    /\ pc' = "cli_light"
    /\ UNCHANGED <<failure, generation_vars, render_vars, run, previous,
                   options, saved,
                   editor_vars>>

\* The arguments of planet.generate are evaluated: the resolution, and
\* options.light(), which panics on a malformed colour; else generation is
\* entered
CliLight ==
    /\ pc = "cli_light"
    /\ LET got == LightOf(options)
       IN  IF got.fail # "none"
           THEN /\ failure' = got.fail
                /\ pc' = "panicked"
                /\ UNCHANGED <<pixels, sun>>
           ELSE /\ pc' = "idle"
                /\ pixels' = options.resolution[1]
                /\ sun' = got.light
                /\ UNCHANGED failure
    /\ cursor' = 0
    /\ image' = <<>>
    /\ samples' = <<>>
    /\ stats' = NoStats
    /\ DropGeneration
    /\ UNCHANGED <<planet, run, previous, options, saved,
                   editor_vars>>

\* The image is saved, or saving fails and generate returns the error; with a
\* repeat interval the loop goes round again
CliSave ==
    /\ pc = "done"
    /\ options # <<>>
    /\ \/ /\ saved' = saved + 1
          /\ pc' = IF options.repeat # <<>> /\ saved + 1 < MaxSaved
                   THEN "cli" ELSE "exit"
       \/ /\ pc' = "io error"
          /\ UNCHANGED saved
    /\ UNCHANGED <<planet, failure, generation_vars, render_vars, run,
                   previous, options, editor_vars>>

\* No editor is running
NoEditor ==
    /\ event = "none"
    /\ events = 0
    /\ seed_label = <<>>
    /\ throttle = <<>>
    /\ sprite = <<>>

Init ==
    /\ planet \in Planets
    /\ pc = "idle"
    /\ failure = "none"
    /\ NoGeneration
    /\ NoRender
    /\ run = 1
    /\ previous = <<>>
    /\ options = <<>>
    /\ saved = 0
    /\ NoEditor

Next ==
    \/ TerrainGenerateBegin
    \/ GenerateElevationsStep
    \/ TerrainComplexity
    \/ InsertPoint
    \/ TerrainGenerateReturn
    \/ GeneratePlanetBegin
    \/ RenderPixel
    \/ GeneratePlanetReturn
    \/ GenerateAgain

\* A planet generated, rendered, and generated and rendered once more
Spec == Init /\ [][Next]_vars

LiteralPlanets ==
    [seed : {0},
     origin : {CalculateOrigin("0", 20000)},
     radius : {Length(6371)},
     colors : {Earthlike, Sunlike}]

InitLiteral ==
    /\ planet \in LiteralPlanets
    /\ pc = "idle"
    /\ failure = "none"
    /\ NoGeneration
    /\ NoRender
    /\ run = 1
    /\ previous = <<>>
    /\ options = <<>>
    /\ saved = 0
    /\ NoEditor

NextLiteral ==
    \/ TerrainLiteral
    \/ GeneratePlanetBegin
    \/ RenderPixel
    \/ GeneratePlanetReturn

\* A terrain written as a literal, rendered
SpecLiteral == InitLiteral /\ [][NextLiteral]_vars

Optional(S) == {<<>>} \cup {<<x>> : x \in S}

CliOptions ==
    [sun_color : Optional(SeqsUpTo(HexAlphabet, MaxHexLen)),
     sols : Optional({2000}),
     resolution : {<<MaxPixels>>},
     repeat : Optional({1}),
     distance : {<<>>},
     angle : {<<>>},
     radius : Optional({Length(0)})]

NoPlanet ==
    [seed |-> 0, origin |-> <<0, 0>>, radius |-> Length(0), colors |-> <<>>]

InitCli ==
    /\ options \in CliOptions
    /\ planet = NoPlanet
    /\ pc = "cli"
    /\ failure = "none"
    /\ NoGeneration
    /\ NoRender
    /\ run = 1
    /\ previous = <<>>
    /\ saved = 0
    /\ NoEditor

NextCli ==
    \/ CliNewPlanet
    \/ CliLight
    \/ TerrainGenerateBegin
    \/ GenerateElevationsStep
    \/ TerrainComplexity
    \/ InsertPoint
    \/ TerrainGenerateReturn
    \/ GeneratePlanetBegin
    \/ RenderPixel
    \/ GeneratePlanetReturn
    \/ CliSave

\* The generate command
SpecCli == InitCli /\ [][NextCli]_vars


-----------------------------------------------------------------------------
(* The editor window *)

LowerHex == <<"0", "1", "2", "3", "4", "5", "6", "7", "8", "9",
              "a", "b", "c", "d", "e", "f">>

\* Uuid::to_string: the digits of the uuid, most significant first
UuidToString(uuid) == <<LowerHex[(uuid \div 16) + 1], LowerHex[(uuid % 16) + 1]>>

\* The fresh uuids the editor draws: with 3 and 5 the planet generates, with
\* 9 a point coincides with its neighbour and the generation panics
EditorUuids == {3, 5, 9}

\* Where the mouse can be, relative to the centre of the window's bounds
Clicks == {<<1, 0>>, <<-1, -1>>, <<0, 1>>}

\* f32::atan2(y, x) of a click relative to the centre
Atan2(y, x) ==
    CASE y = 0 /\ x >= 0 -> "0"
      [] y > 0 /\ x = 0 -> "1.5708"
      [] y < 0 /\ x = y -> "-2.35619"

\* The options of the edit command
EditOptions ==
    [sun_color : {<<>>, <<<<"g">>>>},
     sols : {<<>>},
     resolution : {<<EditorPixels>>},
     repeat : {<<>>},
     distance : {<<>>, <<20000>>},
     angle : {<<>>},
     radius : {<<>>}]

\* A call of generate_image begins: Planet::generate is entered with the
\* window's resolution and light, and nothing of an earlier generation
EnterGenerate ==
    /\ pc' = "idle"
    /\ cursor' = 0
    /\ image' = <<>>
    /\ samples' = <<>>
    /\ stats' = NoStats
    /\ DropGeneration
    /\ UNCHANGED <<pixels, sun>>

\* What generate_image returns: the image, and for the record the seed and
\* the origin it was generated from
GeneratedSprite ==
    [seed |-> planet.seed, origin |-> planet.origin, image |-> image]

\* EditorWindow::new: the light is parsed (a malformed colour panics), the
\* planet is made from the options, with a fresh uuid
EditorNew ==
    /\ pc = "edit_new"
    /\ LET got == LightOf(options)
       IN  IF got.fail # "none"
           THEN /\ failure' = got.fail
                /\ pc' = "panicked"
                /\ UNCHANGED <<planet, pixels, sun>>
           ELSE /\ \E uuid \in EditorUuids : planet' = PlanetOf(options, uuid)
                /\ pixels' = options.resolution[1]
                /\ sun' = got.light
                /\ pc' = "edit_initialize"
                /\ UNCHANGED failure
    /\ UNCHANGED <<generation_vars, cursor, image, samples, stats, run,
                   previous, options, saved, editor_vars>>

\* Component::initialize begins: the first image is generated
InitializeBegin ==
    /\ pc = "edit_initialize"
    /\ event' = "initialize"
    /\ EnterGenerate
    /\ UNCHANGED <<planet, failure, run, previous, options, saved, events,
                   seed_label, throttle, sprite>>

\* Component::initialize once the image is there: the image entity, the seed
\* label with the seed's string, the button, and the throttle of 50 ms
InitializeEnd ==
    /\ pc = "done"
    /\ event = "initialize"
    /\ sprite' = <<GeneratedSprite>>
    /\ seed_label' = UuidToString(planet.seed)
    /\ throttle' = <<[pending |-> <<>>, sent |-> 0, delivered |-> 0,
                    inbox |-> <<>>]>>
    /\ pc' = "editor"
    /\ UNCHANGED <<planet, failure, generation_vars, render_vars, run,
                   previous, options, saved, event, events>>

\* Timeout::send: the command waits for the 50 ms to pass; a command sent
\* while one waits takes its place and the wait starts again
ThrottleSend(t, command) ==
    <<[t[1] EXCEPT !.pending = <<command>>, !.sent = @ + 1]>>

\* The 50 ms have passed since the last request: the one command that waits
\* is delivered to the window
ThrottleElapsed ==
    /\ pc = "editor"
    /\ throttle[1].pending # <<>>
    /\ throttle' = <<[throttle[1] EXCEPT !.pending = <<>>,
                                         !.delivered = @ + 1,
                                         !.inbox = Append(@, throttle[1].pending[1])]>>
    /\ UNCHANGED <<planet, pc, failure, generation_vars, render_vars, run,
                   previous, options, saved, event, events, seed_label, sprite>>

\* EditorWindow::regenerate_image: one request to the throttle
RegenerateImage(t) == ThrottleSend(t, "RegenerateImage")

\* set_origin taking the planet's radius for the radius of its orbit
SetOriginToRadius(window_position) ==
    LET radius == planet.radius.km
        angle == Atan2(window_position[2], window_position[1])
    IN  /\ planet' = [planet EXCEPT !.origin = CalculateOrigin(angle, radius)]
        /\ throttle' = RegenerateImage(throttle)

\* EditorWindow::set_origin: the planet keeps its distance from the star and
\* moves to the angle of the mouse; a regeneration is requested
SetOrigin(window_position) ==
    LET radius == DistanceTo(planet.origin, <<0, 0>>)
        angle == Atan2(window_position[2], window_position[1])
    IN  /\ planet' = [planet EXCEPT !.origin = CalculateOrigin(angle, radius)]
        /\ throttle' = RegenerateImage(throttle)

\* Component::mouse_down
MouseDown ==
    /\ pc = "editor"
    /\ events < MaxEvents
    /\ \E window_position \in Clicks : SetOrigin(window_position)
    /\ event' = "mouse_down"
    /\ events' = events + 1
    /\ UNCHANGED <<pc, failure, generation_vars, render_vars, run, previous,
                   options, saved, seed_label, sprite>>

\* Component::mouse_drag: with a position as mouse_down, without one nothing
MouseDrag ==
    /\ pc = "editor"
    /\ events < MaxEvents
    /\ \E window_position \in {<<>>} \cup {<<c>> : c \in Clicks} :
           IF window_position # <<>>
           THEN SetOrigin(window_position[1])
           ELSE UNCHANGED <<planet, throttle>>
    /\ event' = "mouse_drag"
    /\ events' = events + 1
    /\ UNCHANGED <<pc, failure, generation_vars, render_vars, run, previous,
                   options, saved, seed_label, sprite>>

\* receive_message(NewSeed) leaving the label as it is
ReceiveMessageStaleLabel ==
    /\ pc = "editor"
    /\ events < MaxEvents
    /\ \E uuid \in EditorUuids :
           /\ planet' = [planet EXCEPT !.seed = uuid]
           /\ seed_label' = seed_label
    /\ throttle' = RegenerateImage(throttle)
    /\ event' = "NewSeed"
    /\ events' = events + 1
    /\ UNCHANGED <<pc, failure, generation_vars, render_vars, run, previous,
                   options, saved, sprite>>

\* receive_message(NewSeed): a fresh seed, its string to the label, and a
\* regeneration requested
ReceiveMessage ==
    /\ pc = "editor"
    /\ events < MaxEvents
    /\ \E uuid \in EditorUuids :
           /\ planet' = [planet EXCEPT !.seed = uuid]
           /\ seed_label' = UuidToString(uuid)
    /\ throttle' = RegenerateImage(throttle)
    /\ event' = "NewSeed"
    /\ events' = events + 1
    /\ UNCHANGED <<pc, failure, generation_vars, render_vars, run, previous,
                   options, saved, sprite>>

\* receive_input(RegenerateImage) begins: generate_image is called
ReceiveInputBegin ==
    /\ pc = "editor"
    /\ throttle[1].inbox # <<>>
    /\ throttle' = <<[throttle[1] EXCEPT !.inbox = Tail(@)]>>
    /\ event' = Head(throttle[1].inbox)
    /\ EnterGenerate
    /\ UNCHANGED <<planet, failure, run, previous, options, saved, events,
                   seed_label, sprite>>

\* receive_input(RegenerateImage) once the image is there: it is sent to the
\* image entity
ReceiveInputEnd ==
    /\ pc = "done"
    /\ event = "RegenerateImage"
    /\ sprite' = <<GeneratedSprite>>
    /\ pc' = "editor"
    /\ UNCHANGED <<planet, failure, generation_vars, render_vars, run,
                   previous, options, saved, event, events, seed_label,
                   throttle>>

InitEditor ==
    /\ options \in EditOptions
    /\ planet = NoPlanet
    /\ pc = "edit_new"
    /\ failure = "none"
    /\ NoGeneration
    /\ NoRender
    /\ run = 1
    /\ previous = <<>>
    /\ saved = 0
    /\ NoEditor

NextEditor ==
    \/ EditorNew
    \/ InitializeBegin
    \/ InitializeEnd
    \/ MouseDown
    \/ MouseDrag
    \/ ReceiveMessage
    \/ ThrottleElapsed
    \/ ReceiveInputBegin
    \/ ReceiveInputEnd
    \/ TerrainGenerateBegin
    \/ GenerateElevationsStep
    \/ TerrainComplexity
    \/ InsertPoint
    \/ TerrainGenerateReturn
    \/ GeneratePlanetBegin
    \/ RenderPixel
    \/ GeneratePlanetReturn

\* The editor window, from its creation on
SpecEditor == InitEditor /\ [][NextEditor]_vars

-----------------------------------------------------------------------------
(* Properties *)

Elevation(i) == terrain.elevations[i].elevation

\* generate_elevations has returned the gradient
GradientReturned == draws # <<>> /\ index = Len(planet.colors)

FourDistance2(i) ==
    LET x == (i - 1) % pixels
        y == (i - 1) \div pixels
    IN  4 * (x * x + y * y) - 4 * pixels * (x + y) + 2 * pixels * pixels

\* The pixel written i-th lies at a distance below pixels / 2 from the centre
WithinRadius(i) == FourDistance2(i) < pixels * pixels

RECURSIVE SumOver(_, _)
SumOver(f, keys) ==
    IF keys = {} THEN 0
    ELSE LET k == CHOOSE k \in keys : TRUE
         IN  f[k] + SumOver(f, keys \ {k})

\* C4: the counts of stats sum to the number of pixels written so far whose
\* distance from the centre is below pixels / 2, all through the rendering
\* and in the result
C4_Coverage ==
    pc \in {"render", "done"} =>
        SumOver(stats, DOMAIN stats)
            = Cardinality({i \in 1..cursor : WithinRadius(i)})

C4_Witness ==
    /\ pc = "done"
    /\ pixels >= 2
    /\ SumOver(stats, DOMAIN stats) >= 1
    /\ \E i \in 1..cursor : ~WithinRadius(i)

\* C5: a pixel at distance d from the centre, with r = pixels / 2, is written
\* (0,0,0,0) if d >= r, with alpha 255 if r - d >= 1, and with alpha
\* floor(255 * (r - d)) if 0 < r - d < 1
C5_Alpha ==
    \A i \in 1..Len(image) :
        LET q == FourDistance2(i)
            p == pixels
            a == image[i][4]
        IN  /\ q >= p * p => image[i] = <<0, 0, 0, 0>>
            /\ (q < p * p /\ p >= 2 /\ q <= (p - 2) * (p - 2)) => a = 255
            /\ (q < p * p /\ (p < 2 \/ q > (p - 2) * (p - 2))) =>
                   /\ 255 * p - 2 * a >= 0
                   /\ (255 * p - 2 * a) * (255 * p - 2 * a) >= 65025 * q
                   /\ \/ 255 * p - 2 * a - 2 < 0
                      \/ (255 * p - 2 * a - 2) * (255 * p - 2 * a - 2) < 65025 * q
                   /\ a < 255
            /\ q = 0 => a = 255
            /\ (q < p * p /\ q = (p - 1) * (p - 1)) => (0 < a /\ a < 255)

C5_Witness ==
    /\ pc = "done"
    /\ \E i \in 1..Len(image) : image[i][4] > 0 /\ image[i][4] < 255
    /\ \E i \in 1..Len(image) : image[i][4] = 255 /\ FourDistance2(i) > 0
    /\ \E i \in 1..Len(image) : image[i] = <<0, 0, 0, 0>>

\* C6: without a light, the colour of every pixel inside the body is the
\* colour of the gradient anchor chosen for it, cast to 8 bits
C6_NoLightPassthrough ==
    sun = <<>> =>
        \A i \in 1..Len(image) :
            samples[i].inside =>
                \A c \in Channels :
                    image[i][c] =
                        AsU8(terrain.elevations[samples[i].closest + 1].color[c])

C6_Witness ==
    /\ pc = "done"
    /\ sun = <<>>
    /\ built_by = "generate"
    /\ \E i \in 1..Len(image) :
           /\ samples[i].inside
           /\ image[i][1] > 0
           /\ image[i][1] < 255

\* C7: a terrain of fewer than three points is never sampled: the first pixel
\* inside the body ends the rendering at the assertion, with no colour
\* written and nothing counted for it
C7_FewPointsFailFast ==
    Len(terrain.points) < 3 =>
        /\ stats = NoStats
        /\ \A i \in 1..Len(samples) : ~samples[i].inside
        /\ pc = "panicked" => failure = AssertNearest
        /\ pc = "done" => \A i \in 1..(pixels * pixels) : ~WithinRadius(i)
        /\ (pc = "render" /\ cursor < pixels * pixels) =>
               \A i \in 1..cursor : ~WithinRadius(i)

C7_Witness ==
    /\ pc = "panicked"
    /\ failure = AssertNearest
    /\ Len(terrain.points) = 2
    /\ cursor > 0
    /\ WithinRadius(cursor + 1)

GradientDraws == {"band_end", "midpoint", "midpoint_color"}
FieldDraws == {"surface_chaos", "terrain_complexity", "x", "y", "elevation"}
PointDraws == {"terrain_complexity", "x", "y", "elevation"}

\* C8 as claimed: every draw of the gradient expansion comes before every
\* draw of the elevation field (surface chaos, point count, locations,
\* elevations)
C8_GradientDrawsFirst ==
    \A i, j \in 1..Len(draws) :
        (draws[i] \in GradientDraws /\ draws[j] \in FieldDraws) => i < j

\* C8 as amended: the overextension of the range is drawn first and the
\* surface chaos second, before the gradient expansion; every draw of the
\* gradient expansion comes before the draws of the point count, the
\* locations and the elevations, none in between
C8_DrawOrder ==
    /\ Len(draws) >= 1 => draws[1] = "variance"
    /\ Len(draws) >= 2 => draws[2] = "surface_chaos"
    /\ \A i \in 3..Len(draws) : draws[i] \in GradientDraws \cup PointDraws
    /\ \A i, j \in 1..Len(draws) :
           (draws[i] \in GradientDraws /\ draws[j] \in PointDraws) => i < j

C8_Witness ==
    /\ pc = "terrain"
    /\ \E i \in 1..Len(draws) : draws[i] = "band_end"
    /\ \E i \in 1..Len(draws) : draws[i] = "elevation"

\* C9 as claimed: for a planet whose radius is negative, zero or NaN,
\* Terrain::generate draws nothing, builds no gradient and inserts no point
C9_InvalidRadiusRejected ==
    (planet.radius.nan \/ planet.radius.km <= 0) =>
        /\ draws = <<>>
        /\ terrain.elevations = <<>>
        /\ terrain.points = <<>>

IsHexDigit(c) ==
    c \in {"0", "1", "2", "3", "4", "5", "6", "7", "8", "9",
           "a", "b", "c", "d", "e", "f", "A", "B", "C", "D", "E", "F"}

SixHexDigits(s) == Len(s) = 6 /\ \A i \in 1..6 : IsHexDigit(s[i])

\* C10: a sun colour that is not six hexadecimal digits ends the command with
\* the message about 6-character codes before anything is generated or saved;
\* with no sun colour there is no light, whatever sols is
C10_MalformedSunColor ==
    /\ (options.sun_color # <<>> /\ ~SixHexDigits(options.sun_color[1])) =>
           /\ pc \in {"cli", "cli_light", "panicked"}
           /\ pc = "panicked" => failure = HexMessage
           /\ draws = <<>>
           /\ built_by = "none"
           /\ image = <<>>
           /\ saved = 0
    /\ options.sun_color = <<>> => sun = <<>>
    /\ failure = HexMessage =>
           (options.sun_color # <<>> /\ ~SixHexDigits(options.sun_color[1]))

C10_Witness ==
    /\ pc = "panicked"
    /\ failure = HexMessage
    /\ Len(options.sun_color[1]) = 6
    /\ options.sols # <<>>
    /\ saved = 0

C10_WitnessNoColour ==
    /\ pc = "exit"
    /\ options.sun_color = <<>>
    /\ options.sols # <<>>
    /\ sun = <<>>


\* The distance of the planet p from the star at (0, 0)
OrbitOf(p) == DistanceTo(p.origin, <<0, 0>>)

\* A step of the running editor: the window exists before it and after it
EditorStep == pc \notin {"edit_new", "panicked"} /\ pc' # "panicked"

AnchorsBelow(e) ==
    Cardinality({k \in 1..Len(terrain.elevations) : Elevation(k) < e})

\* No anchor lies at e, and there is one below it and one above it
BetweenAnchors(e) ==
    /\ \A k \in 1..Len(terrain.elevations) : Elevation(k) # e
    /\ AnchorsBelow(e) >= 1
    /\ AnchorsBelow(e) < Len(terrain.elevations)

\* C12 as claimed: for a sampled elevation e between two anchors, with i the
\* insertion index, the anchor chosen is the one of anchor i (above) and
\* anchor i-1 (below) with the smaller gap to e, and anchor i-1 when the gaps
\* are equal
C12_CloserAnchor ==
    \A n \in 1..Len(samples) :
        (samples[n].inside /\ BetweenAnchors(samples[n].elevation.km)) =>
            LET e == samples[n].elevation.km
                i == AnchorsBelow(e)
                gap_above == Elevation(i + 1) - e
                gap_below == e - Elevation(i)
            IN  samples[n].closest = IF gap_above < gap_below THEN i ELSE i - 1

\* The k-th point is, among the points inserted before the j-th, one nearest
\* to the j-th
NearestBefore(k, j) ==
    /\ k < j
    /\ \A m \in 1..(j - 1) :
           Distance2(terrain.points, k, terrain.points[j].location)
               <= Distance2(terrain.points, m, terrain.points[j].location)

\* Every point lies in the elevation range, and every point but the first
\* within surface_chaos times the distance of a nearest earlier point
ElevationField ==
    built_by # "literal" =>
        \A j \in 1..Len(terrain.points) :
            /\ elevation_range[1] <= terrain.points[j].elevation
            /\ terrain.points[j].elevation <= elevation_range[2]
            /\ j = 1 => Abs(terrain.points[j].elevation) <= terrain.surface_chaos
            /\ j > 1 =>
                   \E k \in 1..(j - 1) :
                       /\ NearestBefore(k, j)
                       /\ Abs(terrain.points[j].elevation
                                  - terrain.points[k].elevation)
                              <= terrain.surface_chaos
                                     * DistanceTo(terrain.points[j].location,
                                                  terrain.points[k].location)

\* C13: after every insertion of Terrain::generate every point's elevation
\* lies in the target elevation range, every point but the first lies within
\* surface_chaos times the distance of the elevation of its nearest neighbour
\* among the earlier points, and a point once inserted is never changed or
\* removed while the terrain lives
C13_ElevationField ==
    /\ []ElevationField
    /\ [][(pc \in {"points", "terrain", "render"} /\ pc' # "idle") =>
            /\ Len(terrain'.points) >= Len(terrain.points)
            /\ Len(terrain'.points) <= Len(terrain.points) + 1
            /\ SubSeq(terrain'.points, 1, Len(terrain.points)) = terrain.points]_vars

C13_Witness ==
    /\ pc = "terrain"
    /\ built_by = "generate"
    /\ Len(terrain.points) >= 4
    /\ \E j \in 2..Len(terrain.points) :
           terrain.points[j].elevation # terrain.points[1].elevation
    /\ \E j \in 1..Len(terrain.points) : terrain.points[j].elevation < 0
    /\ \E j \in 1..Len(terrain.points) : terrain.points[j].elevation > 0

\* generate_elevations has expanded one more palette anchor, not the last
InteriorBandExpanded ==
    /\ pc = "generate_elevations"
    /\ pc' = "generate_elevations"
    /\ index' = index + 1
    /\ index' < Len(planet.colors)

\* The end of the band just expanded: carryover = next - end
BandEnd == planet.colors[index + 1].elevation - carryover

\* C14 as claimed: the band of every palette anchor but the last ends at a
\* value e with own palette elevation <= e < next anchor's palette elevation
C14_BandEndFromOwn ==
    [][InteriorBandExpanded =>
        /\ planet.colors[index'].elevation <= BandEnd'
        /\ BandEnd' < planet.colors[index' + 1].elevation]_vars

\* C14 as amended: the band ends at a value e with band start <= e < next
\* anchor's palette elevation, where the band starts at the anchor's own
\* palette elevation minus the carry-over, that is, for every anchor but the
\* first, at the end of the band before; e can lie below the anchor's own
\* palette elevation
C14_BandEndFromStart ==
    [][InteriorBandExpanded =>
        /\ planet.colors[index'].elevation - carryover <= BandEnd'
        /\ BandEnd' < planet.colors[index' + 1].elevation
        /\ carryover' > 0
        /\ index >= 1 => planet.colors[index'].elevation - carryover = BandEnd
        /\ \E k \in 1..Len(terrain'.elevations) :
               /\ terrain'.elevations[k].elevation = BandEnd'
               /\ terrain'.elevations[k].kind = planet.colors[index'].kind]_vars

\* A band has ended below its own anchor's palette elevation
C14_Witness ==
    /\ pc = "generate_elevations"
    /\ index >= 2
    /\ index < Len(planet.colors)
    /\ BandEnd < planet.colors[index].elevation

\* The least and the greatest elevation among the anchors of the gradient
LowestAnchor ==
    CHOOSE e \in {Elevation(i) : i \in 1..Len(terrain.elevations)} :
        \A i \in 1..Len(terrain.elevations) : e <= Elevation(i)

HighestAnchor ==
    CHOOSE e \in {Elevation(i) : i \in 1..Len(terrain.elevations)} :
        \A i \in 1..Len(terrain.elevations) : e >= Elevation(i)

\* The span of the palette's elevations
PaletteSpan ==
    planet.colors[Len(planet.colors)].elevation - planet.colors[1].elevation

\* C15: the returned gradient spans exactly the target range: its lowest
\* anchor lies at the palette minimum minus a variance, its highest at the
\* palette maximum plus the same variance, both being the ends of the target
\* range, and the variance is at least 0 and less than 30% of the palette's
\* elevation span
C15_GradientSpansRange ==
    GradientReturned =>
        LET below == planet.colors[1].elevation - LowestAnchor
            above == HighestAnchor - planet.colors[Len(planet.colors)].elevation
        IN  /\ LowestAnchor = elevation_range[1]
            /\ HighestAnchor = elevation_range[2]
            /\ below = above
            /\ below >= 0
            /\ 10 * below < 3 * PaletteSpan

\* A gradient has been returned whose range exceeds the palette's by more than
\* a fifth of its span at either end
C15_Witness ==
    /\ GradientReturned
    /\ LowestAnchor = elevation_range[1]
    /\ HighestAnchor = elevation_range[2]
    /\ 5 * (planet.colors[1].elevation - LowestAnchor) > PaletteSpan
    /\ LowestAnchor < Elevation(2)

\* How many anchors of gradient `g` carry the category `kind`
AnchorsOfKind(g, kind) == Cardinality({i \in 1..Len(g) : g[i].kind = kind})

\* The categories of the palette
PaletteKinds == {planet.colors[i].kind : i \in 1..Len(planet.colors)}

\* What each pixel written so far shows, against the gradient anchor its
\* sample chose: the anchor's category is the one returned and counted, and
\* the anchor's colour, lit, is the one written
PixelsFollowAnchor ==
    pc \in {"render", "done"} =>
        /\ \A n \in 1..Len(samples) :
               samples[n].inside =>
                   LET anchor == terrain.elevations[samples[n].closest + 1]
                       x == (n - 1) % pixels
                       y == (n - 1) \div pixels
                       lit == FromLinear(Shade(terrain, IntoLinear(anchor.color),
                                  PlanetPoint(x, y, pixels, terrain.radius.km),
                                  sun))
                   IN  /\ samples[n].kind = anchor.kind
                       /\ \A c \in Channels : image[n][c] = AsU8(lit[c])
        /\ \A k \in DOMAIN stats \cup PaletteKinds :
               (IF k \in DOMAIN stats THEN stats[k] ELSE 0)
                   = Cardinality({n \in 1..Len(samples) :
                         /\ samples[n].inside
                         /\ terrain.elevations[samples[n].closest + 1].kind = k})

\* C16: every anchor a band adds to the gradient carries the category of the
\* palette anchor the band was made for (the first iteration adds the start
\* band as well, with the first palette anchor's category), no other
\* category gains an anchor, and the category returned and counted for a
\* pixel is that of the gradient anchor whose colour the pixel shows
C16_CategoriesCopied ==
    /\ []PixelsFollowAnchor
    /\ [][(pc = "generate_elevations" /\ index' = index + 1) =>
            \A k \in PaletteKinds \cup {terrain'.elevations[i].kind :
                                         i \in 1..Len(terrain'.elevations)} :
                AnchorsOfKind(terrain'.elevations, k)
                    = AnchorsOfKind(terrain.elevations, k)
                        + (IF k = planet.colors[index'].kind
                           THEN (IF index = 0 THEN 6 ELSE 3)
                           ELSE 0)]_vars

\* A rendering is complete in which two categories were counted, one of them
\* chosen at an elevation that two anchors of different categories share
C16_Witness ==
    /\ pc = "done"
    /\ Cardinality({k \in DOMAIN stats : stats[k] > 0}) >= 2
    /\ \E n \in 1..Len(samples) :
           /\ samples[n].inside
           /\ samples[n].closest >= 3
    /\ \E i \in 1..Len(terrain.elevations) - 1 :
           /\ Elevation(i) = Elevation(i + 1)
           /\ terrain.elevations[i].kind # terrain.elevations[i + 1].kind

\* The window is initialized and handles no event
Idle == pc = "editor"

\* The image shown was generated from the planet's present seed and origin
ImageCurrent ==
    /\ sprite # <<>>
    /\ sprite[1].seed = planet.seed
    /\ sprite[1].origin = planet.origin

\* set_origin and NewSeed each send one request to the throttle and leave the
\* image alone
RequestsNotImages ==
    [][(Idle /\ events' = events + 1 /\ planet' # planet) =>
        /\ throttle'[1].sent = throttle[1].sent + 1
        /\ throttle'[1].pending = <<"RegenerateImage">>
        /\ throttle'[1].delivered = throttle[1].delivered
        /\ sprite' = sprite
        /\ pc' = pc]_vars

\* The image of an initialized window changes only at the end of the handling
\* of a delivered RegenerateImage, to the image of the planet as it is then
ImagesOnDelivery ==
    [][(sprite # <<>> /\ sprite' # sprite) =>
        /\ event = "RegenerateImage"
        /\ throttle[1].delivered >= 1
        /\ sprite'[1].seed = planet.seed
        /\ sprite'[1].origin = planet.origin
        /\ sprite'[1].image = image]_vars

\* The requests of a burst are delivered as one command
BurstsCoalesce ==
    [][throttle # <<>> =>
        /\ Len(throttle'[1].pending) <= 1
        /\ throttle'[1].delivered <= throttle[1].delivered + 1
        /\ throttle'[1].delivered = throttle[1].delivered + 1 =>
               /\ throttle[1].pending = <<"RegenerateImage">>
               /\ throttle'[1].pending = <<>>
               /\ throttle'[1].inbox
                      = Append(throttle[1].inbox, "RegenerateImage")]_vars

\* No request waits in the throttle and no command waits to be handled
ThrottleQuiet == throttle[1].pending = <<>> /\ throttle[1].inbox = <<>>

\* C17: the editor's regeneration is throttled and eventually consistent:
\* set_origin and NewSeed send one request each to the throttle and generate
\* nothing themselves, the image is regenerated only on a delivered
\* RegenerateImage and from the seed and origin of that moment, a burst gives
\* one RegenerateImage, and the changes come to be shown: the handling of a
\* delivered RegenerateImage ends with the image replaced, never with the
\* window dead, so that the window at rest shows the image of the latest
\* seed and origin
C17_ThrottledRegeneration ==
    /\ RequestsNotImages
    /\ ImagesOnDelivery
    /\ BurstsCoalesce
    /\ []((Idle /\ ThrottleQuiet) => ImageCurrent)
    /\ [](event = "RegenerateImage" => pc # "panicked")

\* The failures extrapolate_point can end in
ExtrapolationFailures ==
    {AssertNearest, "index out of bounds", "unwrap on None: partial_cmp"}

\* C18: the rendering of a generated terrain never fails in
\* extrapolate_point: the terrain holds as many points as generate drew for
\* it, at least three, so three neighbours are found; every elevation sampled
\* lies between the lowest and the highest anchor of the gradient; and the
\* index the gradient is read at is one of its indices
C18_ExtrapolationInBounds ==
    /\ failure \notin ExtrapolationFailures
    /\ pc \in {"render", "done"} =>
           /\ Len(terrain.points) >= 3
           /\ Len(terrain.points) >= ComplexityLow
           /\ Len(terrain.points) < ComplexityLow + ComplexitySpan
           /\ \A n \in 1..Len(samples) :
                  samples[n].inside =>
                      /\ ~samples[n].elevation.nan
                      /\ Elevation(1) <= samples[n].elevation.km
                      /\ samples[n].elevation.km
                             <= Elevation(Len(terrain.elevations))
                      /\ samples[n].closest \in 0..(Len(terrain.elevations) - 1)

\* A rendering is complete in which one pixel read the gradient in its start
\* band and another in its upper half
C18_Witness ==
    /\ pc = "done"
    /\ \E n \in 1..Len(samples) :
           /\ samples[n].inside
           /\ samples[n].closest <= 2
    /\ \E n \in 1..Len(samples) :
           /\ samples[n].inside
           /\ 2 * samples[n].closest >= Len(terrain.elevations)

\* The failures of a random draw asked from an empty interval, for the end of
\* a band, the midpoint of a band and the elevation of a point
EmptyDraws ==
    {"empty range: band end", "empty range: midpoint", "empty range: elevation"}

\* C19: Terrain::generate completes for every palette that is not empty and
\* ascends by elevation, the palette of one anchor, the palette of two anchors
\* at one elevation and the palette wholly above the surface chaos among
\* them: no draw for a band end, a band midpoint or a point elevation is
\* asked from an empty interval
C19_GenerateCompletes == failure \notin EmptyDraws

\* C20: whenever the initialized window handles no message, the seed label
\* shows the string form of the planet's seed; the label and the seed change
\* only together, in the handling of NewSeed, which also sends the request
\* to regenerate
C20_SeedLabel ==
    /\ [](Idle => seed_label = UuidToString(planet.seed))
    /\ [][(Idle /\ (seed_label' # seed_label \/ planet'.seed # planet.seed)) =>
            /\ event' = "NewSeed"
            /\ seed_label' = UuidToString(planet'.seed)
            /\ throttle'[1].sent = throttle[1].sent + 1]_vars

\* A NewSeed has been handled and its regeneration has not: the label shows
\* the new seed while the image is still that of the old one
C20_Witness ==
    /\ Idle
    /\ event = "NewSeed"
    /\ sprite[1].seed # planet.seed
    /\ seed_label = UuidToString(planet.seed)
    /\ seed_label # UuidToString(sprite[1].seed)

\* The place in the image, counted from 1 in the order the pixels are
\* written, of the pixel at (pixels - 1, pixels / 2)
EdgePixel == (pixels \div 2) * pixels + pixels

\* Every pixel written so far in row 0 or in column 0 is (0, 0, 0, 0) and was
\* not sampled, and the counts sum to the sampled pixels outside that row and
\* that column
FirstRowAndColumnEmpty ==
    /\ \A n \in 1..Len(image) :
           ((n - 1) % pixels = 0 \/ (n - 1) \div pixels = 0) =>
               /\ image[n] = <<0, 0, 0, 0>>
               /\ ~samples[n].inside
    /\ SumOver(stats, DOMAIN stats)
           = Cardinality({n \in 1..Len(image) :
                 /\ (n - 1) % pixels > 0
                 /\ (n - 1) \div pixels > 0
                 /\ samples[n].inside})

\* The pixel at (pixels - 1, pixels / 2), once written, is inside the body
\* and opaque, and the returned image holds it
EdgePixelOpaque ==
    /\ pc = "done" => EdgePixel \in 1..Len(image)
    /\ EdgePixel \in 1..Len(image) =>
           /\ samples[EdgePixel].inside
           /\ image[EdgePixel][4] = 255

\* C21 as claimed: at every even resolution, every pixel of row 0 and of
\* column 0 is (0, 0, 0, 0) and counted in no category, and the pixel at
\* (resolution - 1, resolution / 2) is inside the body with alpha 255
C21_EveryEvenResolution ==
    (pc \in {"render", "done"} /\ pixels % 2 = 0) =>
        /\ FirstRowAndColumnEmpty
        /\ EdgePixelOpaque

\* C21 as amended: at every even resolution of at least 2, every pixel of
\* row 0 and of column 0 is (0, 0, 0, 0) and counted in no category, and the
\* pixel at (resolution - 1, resolution / 2) is inside the body with alpha
\* 255; at resolution 0 the image has no pixel
C21_EvenResolution ==
    /\ (pc \in {"render", "done"} /\ pixels % 2 = 0 /\ pixels >= 2) =>
           /\ FirstRowAndColumnEmpty
           /\ EdgePixelOpaque
    /\ (pc \in {"render", "done"} /\ pixels = 0) => image = <<>>

\* An image of resolution 4 is returned whose pixel (3, 2) is opaque, whose
\* pixel (1, 2), as far from the centre on the other side, is too, and whose
\* pixel (0, 2) is empty
C21_Witness ==
    /\ pc = "done"
    /\ pixels = 4
    /\ image[EdgePixel][4] = 255
    /\ image[2 * pixels + 2][4] = 255
    /\ image[2 * pixels + 1] = <<0, 0, 0, 0>>
    /\ SumOver(stats, DOMAIN stats) >= 1

=============================================================================
